---- MODULE Spec2Model ----
(***************************************************************************)
(* Fitness-tracker module (homework.py): the factory read_package, the     *)
(* class Training with its variants Running, SportsWalking and Swimming,   *)
(* and the record InfoMessage returned by show_training_info.              *)
(*                                                                         *)
(* Numbers.  The program computes with Python numbers: the sensor values   *)
(* are ints, every formula leads through a float literal or a true         *)
(* division, so every computed value is a binary floating-point number,    *)
(* each operation rounded to nearest, ties to even.  A number is modelled  *)
(* as [type |-> "float", m, e], standing for m * 2^e, with m odd (or m = 0   *)
(* and e = 0) and |m| < 2^FloatBits.  CPython's float has a 53-bit significand; the       *)
(* model's integers are 32-bit, so the significand width is the bound      *)
(* FloatBits.  The exponent is unbounded: no overflow to infinity and no   *)
(* underflow occurs on the inputs explored.  An int is the number of the   *)
(* same value (the inputs and their int products are exactly              *)
(* representable in FloatBits bits).                                       *)
(*                                                                         *)
(* Exceptions.  A raised exception is modelled as the value the call ends  *)
(* in: [type |-> <the exception's class>, msg |-> <its message>].  An      *)
(* operation whose operand raised ends in that exception (operands are     *)
(* evaluated left to right).  Every value carries its class name in the    *)
(* field type, as type(v).__name__ does.                                   *)
(***************************************************************************)
EXTENDS Integers, Sequences, FiniteSets, TLC

\* Significand width of the modelled floating point.
FloatBits == 11

\* Longest argument list handed to read_package.
MaxArgs == 6

----------------------------------------------------------------------------
(* Integer helpers. *)

RECURSIVE Pow2(_)
Pow2(n) == IF n <= 0 THEN 1 ELSE 2 * Pow2(n - 1)

RECURSIVE BitLen(_)
BitLen(n) == IF n = 0 THEN 0 ELSE 1 + BitLen(n \div 2)

Abs(n) == IF n < 0 THEN -n ELSE n

Sgn(n) == IF n < 0 THEN -1 ELSE IF n = 0 THEN 0 ELSE 1

----------------------------------------------------------------------------
(* Floating point: m * 2^e, canonical with m odd. *)

Float(m, e) == [type |-> "float", m |-> m, e |-> e]

RECURSIVE Norm(_, _)
Norm(m, e) ==
    IF m = 0 THEN Float(0, 0)
    ELSE IF m % 2 = 0 THEN Norm(m \div 2, e + 1)
    ELSE Float(m, e)

\* The exact value m * 2^e rounded to FloatBits significant bits,
\* to nearest, ties to even.
Round(m, e) ==
    LET a == Abs(m)
        s == BitLen(a) - FloatBits
    IN  IF s <= 0 THEN Norm(m, e)
        ELSE LET q    == a \div Pow2(s)
                 r    == a % Pow2(s)
                 half == Pow2(s - 1)
                 up   == r > half \/ (r = half /\ q % 2 = 1)
             IN  Norm(Sgn(m) * (IF up THEN q + 1 ELSE q), e + s)

\* The quotient (a / b) * 2^e of two integers, b # 0, correctly rounded:
\* the quotient is taken to at least FloatBits + 2 bits and a sticky bit
\* records a nonzero remainder.
DivInt(a, b, e) ==
    IF a = 0 THEN Float(0, 0)
    ELSE LET k  == 2 * FloatBits + 2 - BitLen(Abs(a))
             n  == Abs(a) * Pow2(k)
             q  == n \div Abs(b)
             st == IF n % Abs(b) = 0 THEN 0 ELSE 1
         IN  Round(Sgn(a) * Sgn(b) * (2 * q + st), e - k - 1)

\* An int used as a number.
FromInt(n) == Round(n, 0)

\* A decimal literal n/d, as the parser rounds it.
Lit(n, d) == DivInt(n, d, 0)

FNeg(x) == Float(-x.m, x.e)

FMul(x, y) == Round(x.m * y.m, x.e + y.e)

FDiv(x, y) == DivInt(x.m, y.m, x.e - y.e)

\* Position of the leading bit of a nonzero number.
Top(x) == x.e + BitLen(Abs(x.m))

FAdd(x, y) ==
    IF x.m = 0 THEN y
    ELSE IF y.m = 0 THEN x
    ELSE IF Top(x) - Top(y) > FloatBits + 2 THEN x
    ELSE IF Top(y) - Top(x) > FloatBits + 2 THEN y
    ELSE LET e == IF x.e < y.e THEN x.e ELSE y.e
         IN  Round(x.m * Pow2(x.e - e) + y.m * Pow2(y.e - e), e)

----------------------------------------------------------------------------
(* Python values and operators. *)

None == [type |-> "NoneType"]

Exception(type, msg) == [type |-> type, msg |-> msg]

ExceptionTypes == {"TypeError", "ZeroDivisionError", "NotImplementedError"}

IsExc(v) == v.type \in ExceptionTypes

ZeroDivisionError == Exception("ZeroDivisionError", "division by zero")

\* a * b
Mul(a, b) ==
    IF IsExc(a) THEN a ELSE IF IsExc(b) THEN b ELSE FMul(a, b)

\* a + b
Add(a, b) ==
    IF IsExc(a) THEN a ELSE IF IsExc(b) THEN b ELSE FAdd(a, b)

\* Mutant of Div: a zero divisor yields zero instead of raising.
Div_silent(a, b) ==
    IF IsExc(a) THEN a
    ELSE IF IsExc(b) THEN b
    ELSE IF b.m = 0 THEN Float(0, 0)
    ELSE FDiv(a, b)

\* a / b: true division raises ZeroDivisionError on a zero divisor.
Div(a, b) ==
    IF IsExc(a) THEN a
    ELSE IF IsExc(b) THEN b
    ELSE IF b.m = 0 THEN ZeroDivisionError
    ELSE FDiv(a, b)

\* a ** 2
Sqr(a) == IF IsExc(a) THEN a ELSE FMul(a, a)

----------------------------------------------------------------------------
(* class Training and its variants: constants. *)

M_IN_KM == 1000

MIN_IN_H == 60

\* Training.LEN_STEP, overridden by Swimming.
LEN_STEP(cls) == IF cls = "Swimming" THEN Lit(138, 100) ELSE Lit(13, 20)

CALORIES_MEAN_SPEED_MULTIPLIER == 18

CALORIES_MEAN_SPEED_SHIFT == Lit(179, 100)

CALORIES_SPEED_HEIGHT_MULTIPLIER == Lit(29, 1000)

CALORIES_WEIGHT_MULTIPLIER == Lit(35, 1000)

KMH_IN_MSEC == Lit(278, 1000)

CM_IN_M == 100

CALORIES_COEF1 == Lit(11, 10)

CALORIES_COEF2 == 2

----------------------------------------------------------------------------
(* Constructors. *)

\* Training.__init__, also the constructor of Running.
Training_init(cls, action, duration, weight) ==
    [type |-> cls, action |-> action, duration |-> duration,
     weight |-> weight]

SportsWalking_init(action, duration, weight, height) ==
    [type |-> "SportsWalking", action |-> action, duration |-> duration,
     weight |-> weight, height |-> height]

\* Mutant of Swimming_init: weight and length_pool bound the other way round.
Swimming_init_swapped(action, duration, weight, length_pool, count_pool) ==
    [type |-> "Swimming", action |-> action, duration |-> duration,
     weight |-> length_pool, length_pool |-> weight,
     count_pool |-> count_pool]

Swimming_init(action, duration, weight, length_pool, count_pool) ==
    [type |-> "Swimming", action |-> action, duration |-> duration,
     weight |-> weight, length_pool |-> length_pool,
     count_pool |-> count_pool]

\* The number of positional parameters of cls.__init__, self aside.
NParams(cls) ==
    CASE cls = "Swimming"      -> 5
      [] cls = "SportsWalking" -> 4
      [] OTHER                 -> 3

\* Mutant of New: surplus arguments are dropped instead of refused.
New_truncating(cls, data) ==
    IF Len(data) < NParams(cls)
    THEN Exception("TypeError", "wrong number of positional arguments")
    ELSE CASE cls = "Swimming" ->
                Swimming_init(data[1], data[2], data[3], data[4], data[5])
           [] cls = "SportsWalking" ->
                SportsWalking_init(data[1], data[2], data[3], data[4])
           [] OTHER ->
                Training_init(cls, data[1], data[2], data[3])

\* cls(*data): the call binds the list to the parameters by position and
\* raises TypeError unless there is exactly one value per parameter.
New(cls, data) ==
    IF Len(data) # NParams(cls)
    THEN Exception("TypeError", "wrong number of positional arguments")
    ELSE CASE cls = "Swimming" ->
                Swimming_init(data[1], data[2], data[3], data[4], data[5])
           [] cls = "SportsWalking" ->
                SportsWalking_init(data[1], data[2], data[3], data[4])
           [] OTHER ->
                Training_init(cls, data[1], data[2], data[3])

----------------------------------------------------------------------------
(* Methods. *)

get_distance(self) ==
    Div(Mul(self.action, LEN_STEP(self.type)), FromInt(M_IN_KM))

\* Mutant of get_mean_speed: Swimming does not override it.
get_mean_speed_base(self) == Div(get_distance(self), self.duration)

\* Training.get_mean_speed, overridden by Swimming.
get_mean_speed(self) ==
    IF self.type = "Swimming"
    THEN Div(Div(Mul(self.length_pool, self.count_pool), FromInt(M_IN_KM)),
             self.duration)
    ELSE Div(get_distance(self), self.duration)

\* Mutant of Running_get_spent_calories: the duration stays in hours.
Running_get_spent_calories_hours(self) ==
    Mul(Div(Mul(Add(Mul(FromInt(CALORIES_MEAN_SPEED_MULTIPLIER),
                        get_mean_speed(self)),
                    CALORIES_MEAN_SPEED_SHIFT),
                self.weight),
            FromInt(M_IN_KM)),
        self.duration)

Running_get_spent_calories(self) ==
    Mul(Div(Mul(Add(Mul(FromInt(CALORIES_MEAN_SPEED_MULTIPLIER),
                        get_mean_speed(self)),
                    CALORIES_MEAN_SPEED_SHIFT),
                self.weight),
            FromInt(M_IN_KM)),
        Mul(self.duration, FromInt(MIN_IN_H)))

\* Mutant of SportsWalking_get_spent_calories: the squared speed is
\* multiplied by the height instead of divided by it.
SportsWalking_get_spent_calories_times(self) ==
    Mul(Add(Mul(CALORIES_WEIGHT_MULTIPLIER, self.weight),
            Mul(Mul(Mul(Sqr(Mul(get_mean_speed(self), KMH_IN_MSEC)),
                        Div(self.height, FromInt(CM_IN_M))),
                    CALORIES_SPEED_HEIGHT_MULTIPLIER),
                self.weight)),
        Mul(self.duration, FromInt(MIN_IN_H)))

SportsWalking_get_spent_calories(self) ==
    Mul(Add(Mul(CALORIES_WEIGHT_MULTIPLIER, self.weight),
            Mul(Mul(Div(Sqr(Mul(get_mean_speed(self), KMH_IN_MSEC)),
                        Div(self.height, FromInt(CM_IN_M))),
                    CALORIES_SPEED_HEIGHT_MULTIPLIER),
                self.weight)),
        Mul(self.duration, FromInt(MIN_IN_H)))

Swimming_get_spent_calories(self) ==
    Mul(Mul(Mul(Add(get_mean_speed(self), CALORIES_COEF1),
                FromInt(CALORIES_COEF2)),
            self.weight),
        self.duration)

\* Mutant of get_spent_calories: Running does not override it.
get_spent_calories_no_running(self) ==
    CASE self.type = "SportsWalking" -> SportsWalking_get_spent_calories(self)
      [] self.type = "Swimming"      -> Swimming_get_spent_calories(self)
      [] OTHER -> Exception("NotImplementedError",
                            "get_spent_calories is not defined")

\* Training.get_spent_calories raises; each variant overrides it.
get_spent_calories(self) ==
    CASE self.type = "Running"       -> Running_get_spent_calories(self)
      [] self.type = "SportsWalking" -> SportsWalking_get_spent_calories(self)
      [] self.type = "Swimming"      -> Swimming_get_spent_calories(self)
      [] OTHER -> Exception("NotImplementedError",
                            "get_spent_calories is not defined")

InfoMessage(training_type, duration, distance, speed, calories) ==
    [type |-> "InfoMessage", training_type |-> training_type,
     duration |-> duration, distance |-> distance, speed |-> speed,
     calories |-> calories]

\* The arguments are evaluated left to right; the first that raises ends
\* the call.
show_training_info(self) ==
    LET distance == get_distance(self)
        speed    == get_mean_speed(self)
        calories == get_spent_calories(self)
    IN  IF IsExc(distance) THEN distance
        ELSE IF IsExc(speed) THEN speed
        ELSE IF IsExc(calories) THEN calories
        ELSE InfoMessage(self.type, self.duration, distance, speed, calories)

----------------------------------------------------------------------------
(* The factory. *)

\* Mutant of training_types: two codes exchanged.
training_types_exchanged ==
    [SWM |-> "Swimming", RUN |-> "SportsWalking", WLK |-> "Running"]

training_types ==
    [SWM |-> "Swimming", RUN |-> "Running", WLK |-> "SportsWalking"]

\* Mutant of read_package: an unknown code falls back to Running.
read_package_default(workout_type, data) ==
    IF workout_type \in DOMAIN training_types
    THEN New(training_types[workout_type], data)
    ELSE New("Running", data)

read_package(workout_type, data) ==
    IF workout_type \in DOMAIN training_types
    THEN New(training_types[workout_type], data)
    ELSE Exception("TypeError", "workout type is not defined")

----------------------------------------------------------------------------
(* Inputs. *)

WorkoutTypes == {"SWM", "RUN", "WLK", "XYZ"}

Actions == {FromInt(n) : n \in {0, 1, 720, 9000}}

Durations == {FromInt(n) : n \in {0, 1, 2}}

Weights == {FromInt(n) : n \in {75, 80}}

Heights == {FromInt(n) : n \in {160, 180}}

Pools == {FromInt(n) : n \in {25, 50}}

Counts == {FromInt(n) : n \in {40}}

\* The argument lists: one value per parameter of some constructor, and
\* lists too short or too long for every constructor.
DataLists ==
    {<<a, d>> : a \in Actions, d \in {FromInt(1)}}
    \cup {<<a, d, w>> : a \in Actions, d \in Durations, w \in Weights}
    \cup {<<a, d, w, h>> : a \in Actions, d \in Durations, w \in Weights,
                           h \in Heights}
    \cup {<<a, d, w, l, c>> : a \in Actions, d \in Durations, w \in Weights,
                              l \in Pools, c \in Counts}
    \cup {[i \in 1..n |-> FromInt(1)] : n \in 6..MaxArgs}

----------------------------------------------------------------------------
(* State. *)

VARIABLES
    training,   \* the workout the caller holds, or None
    built,      \* that workout as its constructor left it
    origin,     \* how it was built: by read_package (from which code and
                \* list) or by Training(...) directly
    op,         \* the last call
    arg,        \* the last call's arguments, if it was of read_package:
                \* workout_type and len(data)
    ret,        \* the value the last call returned, None if it raised
    exc,        \* the exception the last call raised, None if it returned
    first,      \* the first InfoMessage this workout returned, or None
    shows       \* the InfoMessages this workout returned, counted to MaxShows

vars == <<training, built, origin, op, arg, ret, exc, first, shows>>

\* Calls of show_training_info counted per workout.
MaxShows == 2

Init ==
    /\ training = None
    /\ built = None
    /\ origin = None
    /\ op = "none"
    /\ arg = None
    /\ ret = None
    /\ exc = None
    /\ first = None
    /\ shows = 0

\* training = read_package(workout_type, data): the assignment happens
\* only if the call returns.
ReadPackage ==
    \E workout_type \in WorkoutTypes, data \in DataLists :
        LET r == read_package(workout_type, data)
        IN  /\ op' = "read_package"
            /\ arg' = [type |-> "call", workout_type |-> workout_type,
                       nargs |-> Len(data)]
            /\ IF IsExc(r)
               THEN /\ exc' = r
                    /\ ret' = None
                    /\ UNCHANGED <<training, built, origin, first, shows>>
               ELSE /\ exc' = None
                    /\ ret' = r
                    /\ training' = r
                    /\ built' = r
                    /\ origin' = [type |-> "read_package",
                                  workout_type |-> workout_type,
                                  data |-> data]
                    /\ first' = None
                    /\ shows' = 0

\* training = Training(action, duration, weight): the base class, built
\* without the factory.
NewTraining ==
    \E action \in Actions, duration \in Durations, weight \in Weights :
        LET r == Training_init("Training", action, duration, weight)
        IN  /\ op' = "Training"
            /\ exc' = None
            /\ ret' = r
            /\ training' = r
            /\ built' = r
            /\ origin' = [type |-> "Training"]
            /\ first' = None
            /\ shows' = 0
            /\ arg' = None

\* A call of a method that returns a number or raises.
Call(name, r) ==
    /\ training # None
    /\ op' = name
    /\ exc' = (IF IsExc(r) THEN r ELSE None)
    /\ ret' = (IF IsExc(r) THEN None ELSE r)
    /\ arg' = None
    /\ UNCHANGED <<training, built, origin, first, shows>>

GetDistance == Call("get_distance", get_distance(training))

GetMeanSpeed == Call("get_mean_speed", get_mean_speed(training))

GetSpentCalories == Call("get_spent_calories", get_spent_calories(training))

\* Mutant of ShowTrainingInfo: reporting resets the action counter.
ShowTrainingInfo_consuming ==
    /\ training # None
    /\ shows < MaxShows
    /\ LET r == show_training_info(training)
       IN  /\ op' = "show_training_info"
           /\ exc' = (IF IsExc(r) THEN r ELSE None)
           /\ ret' = (IF IsExc(r) THEN None ELSE r)
           /\ first' = (IF IsExc(r) \/ first # None THEN first ELSE r)
           /\ shows' = (IF IsExc(r) THEN shows ELSE shows + 1)
    /\ training' = [training EXCEPT !.action = Float(0, 0)]
    /\ arg' = None
    /\ UNCHANGED <<built, origin>>

\* main: info = training.show_training_info().
ShowTrainingInfo ==
    /\ training # None
    /\ shows < MaxShows
    /\ LET r == show_training_info(training)
       IN  /\ op' = "show_training_info"
           /\ exc' = (IF IsExc(r) THEN r ELSE None)
           /\ ret' = (IF IsExc(r) THEN None ELSE r)
           /\ first' = (IF IsExc(r) \/ first # None THEN first ELSE r)
           /\ shows' = (IF IsExc(r) THEN shows ELSE shows + 1)
    /\ arg' = None
    /\ UNCHANGED <<training, built, origin>>

Next ==
    \/ ReadPackage
    \/ NewTraining
    \/ GetDistance
    \/ GetMeanSpeed
    \/ GetSpentCalories
    \/ ShowTrainingInfo

Spec == Init /\ [][Next]_vars

----------------------------------------------------------------------------
(* Properties. *)

\* x < y and x <= y on numbers: the sign of the rounded difference is the
\* sign of the exact one.
FLt(x, y) == FAdd(x, FNeg(y)).m < 0

FLe(x, y) == ~FLt(y, x)

KnownCodes == {"SWM", "RUN", "WLK"}

\* The variant and the argument count each code stands for.
VariantOf(code) ==
    CASE code = "RUN" -> "Running"
      [] code = "WLK" -> "SportsWalking"
      [] code = "SWM" -> "Swimming"

ArityOf(code) ==
    CASE code = "RUN" -> 3
      [] code = "WLK" -> 4
      [] code = "SWM" -> 5

Methods == {"get_mean_speed", "get_spent_calories", "show_training_info"}

FromFactory == origin.type = "read_package"

\* C1: read_package builds, from a recognized code and a list of the right
\* length, the variant the code stands for, and the InfoMessage of a workout
\* built from a code carries that variant's name.
C1_FactoryVariant ==
    /\ (op = "read_package" /\ arg.workout_type \in KnownCodes
            /\ arg.nargs = ArityOf(arg.workout_type))
       => (exc = None /\ ret.type = VariantOf(arg.workout_type)
            /\ training = ret)
    /\ (FromFactory /\ op = "show_training_info" /\ exc = None)
       => (training.type = VariantOf(origin.workout_type)
            /\ ret.training_type = VariantOf(origin.workout_type))

C1_Witness ==
    /\ FromFactory
    /\ origin.workout_type = "WLK"
    /\ op = "show_training_info"
    /\ exc = None
    /\ ret.training_type = "SportsWalking"

\* C2: a call of read_package with a code that is none of SWM, RUN, WLK
\* raises the TypeError for an unknown workout type, returns nothing and
\* leaves the caller's workout as it was, whatever the list.
C2_UnknownCode ==
    [][(op' = "read_package" /\ arg'.workout_type \notin KnownCodes)
        => (/\ exc' = Exception("TypeError", "workout type is not defined")
            /\ ret' = None
            /\ training' = training
            /\ built' = built)]_vars

C2_Witness ==
    /\ op = "read_package"
    /\ arg.workout_type = "XYZ"
    /\ arg.nargs = 3
    /\ exc.type = "TypeError"
    /\ training.type = "Swimming"

\* C3 as stated: for a recognized code, a list of the wrong length or with
\* duration <= 0 or weight <= 0 makes read_package raise an error whose
\* kind differs from that of the error for an unknown code.
C3_Original ==
    (op = "read_package" /\ arg.workout_type \in KnownCodes)
    => LET mismatch ==
               \/ arg.nargs # ArityOf(arg.workout_type)
               \/ (exc = None /\ (ret.duration.m <= 0 \/ ret.weight.m <= 0))
       IN  mismatch => (exc # None /\ exc.type # "TypeError")

\* C3 amended: for a recognized code, a list of the wrong length makes
\* read_package raise TypeError, the class of the error for an unknown code
\* (the message differs); a list of the right length yields a workout
\* whatever its values, duration = 0 included.
C3_Amended ==
    (op = "read_package" /\ arg.workout_type \in KnownCodes)
    => IF arg.nargs # ArityOf(arg.workout_type)
       THEN /\ ret = None
            /\ exc.type = "TypeError"
            /\ exc.msg # "workout type is not defined"
       ELSE /\ exc = None
            /\ ret.type = VariantOf(arg.workout_type)

C3_Witness ==
    /\ op = "read_package"
    /\ arg.workout_type = "RUN"
    /\ arg.nargs = 3
    /\ exc = None
    /\ ret.duration.m = 0

\* C4: on a Running, SportsWalking or Swimming with duration = 0, each of
\* get_mean_speed, get_spent_calories and show_training_info raises
\* ZeroDivisionError and returns nothing.
C4_ZeroDuration ==
    (training.type \in {"Running", "SportsWalking", "Swimming"}
        /\ training.duration.m = 0 /\ op \in Methods)
    => (exc.type = "ZeroDivisionError" /\ ret = None)

C4_Witness ==
    /\ training.type = "Swimming"
    /\ training.duration.m = 0
    /\ op = "show_training_info"
    /\ exc.type = "ZeroDivisionError"

\* C5: on a Running with action >= 0, duration > 0 and weight > 0,
\* get_distance returns action * 0.65 / 1000, get_mean_speed returns that
\* distance / duration, and get_spent_calories returns
\* (18 * mean speed + 1.79) * weight / 1000 * (duration * 60).
C5_Running ==
    (training.type = "Running" /\ training.action.m >= 0
        /\ training.duration.m > 0 /\ training.weight.m > 0)
    => LET distance == FDiv(FMul(training.action, Lit(65, 100)),
                            FromInt(1000))
           speed    == FDiv(distance, training.duration)
           calories ==
               FMul(FDiv(FMul(FAdd(FMul(FromInt(18), speed), Lit(179, 100)),
                              training.weight),
                         FromInt(1000)),
                    FMul(training.duration, FromInt(60)))
       IN  /\ op = "get_distance" => (exc = None /\ ret = distance)
           /\ op = "get_mean_speed" => (exc = None /\ ret = speed)
           /\ op = "get_spent_calories" => (exc = None /\ ret = calories)

C5_Witness ==
    /\ training.type = "Running"
    /\ training.action = FromInt(9000)
    /\ training.duration = FromInt(2)
    /\ op = "get_spent_calories"
    /\ exc = None
    /\ ret.m > 0

\* C6: on a Swimming with duration > 0, get_mean_speed returns
\* length_pool * count_pool / 1000 / duration, and neither it nor
\* get_spent_calories changes when only action is changed.
C6_Swimming ==
    (training.type = "Swimming" /\ training.duration.m > 0)
    => /\ op = "get_mean_speed"
          => /\ exc = None
             /\ ret = FDiv(FDiv(FMul(training.length_pool,
                                     training.count_pool),
                                FromInt(1000)),
                           training.duration)
             /\ \A a \in Actions :
                   get_mean_speed([training EXCEPT !.action = a]) = ret
       /\ op = "get_spent_calories"
          => /\ exc = None
             /\ \A a \in Actions :
                   get_spent_calories([training EXCEPT !.action = a]) = ret

C6_Witness ==
    /\ training.type = "Swimming"
    /\ training.action = FromInt(9000)
    /\ training.duration = FromInt(2)
    /\ op = "get_mean_speed"
    /\ ret.m > 0
    /\ get_distance(training) # get_distance([training EXCEPT
                                                  !.action = FromInt(1)])

\* The SportsWalking workouts the claim C7 is about: valid inputs and a
\* mean speed above zero, after get_spent_calories returned.
C7_Case ==
    /\ training.type = "SportsWalking"
    /\ training.action.m >= 0
    /\ training.duration.m > 0
    /\ training.weight.m > 0
    /\ training.height.m > 0
    /\ op = "get_spent_calories"
    /\ exc = None
    /\ get_mean_speed(training).m > 0

\* C7 as stated: with action, duration and weight fixed and the mean speed
\* above zero, a strictly larger height gives strictly fewer calories.
\* (With FloatBits = 11 one step in one hour is slow enough for the sum to
\* absorb the height's term; with the 53 bits of CPython's float the same
\* happens from action = 1, duration = 1000000 on.)
C7_Original ==
    C7_Case
    => \A h \in Heights :
          FLt(training.height, h)
          => FLt(get_spent_calories([training EXCEPT !.height = h]), ret)

\* C7 amended: with action, duration and weight fixed and the mean speed
\* above zero, a strictly larger height never gives more calories (it
\* gives the same number when rounding absorbs the height's term).
C7_Amended ==
    C7_Case
    => \A h \in Heights :
          FLt(training.height, h)
          => FLe(get_spent_calories([training EXCEPT !.height = h]), ret)

C7_Witness ==
    /\ C7_Case
    /\ training.height = FromInt(160)
    /\ FLt(get_spent_calories([training EXCEPT !.height = FromInt(180)]),
           ret)

\* C8: no call changes the workout's fields, and every InfoMessage that
\* show_training_info returns equals the first one it returned.
C8_Idempotent ==
    /\ training = built
    /\ (op = "show_training_info" /\ exc = None) => ret = first

C8_Witness ==
    /\ shows = 2
    /\ op = "show_training_info"
    /\ exc = None
    /\ ret = first
    /\ ret.calories.m > 0

\* C9: read_package binds the list of SWM as (action, duration, weight,
\* length_pool, count_pool): with duration > 0, get_spent_calories returns
\* (length_pool * count_pool / 1000 / duration + 1.1) * 2 * weight
\* * duration; from [720, 1, 80, 25, 40] the mean speed is 1.0 and the
\* calories are 336.0.
C9_SwimmingBinding ==
    (FromFactory /\ origin.workout_type = "SWM" /\ origin.data[2].m > 0)
    => LET d == origin.data
           speed == FDiv(FDiv(FMul(d[4], d[5]), FromInt(1000)), d[2])
           calories ==
               FMul(FMul(FMul(FAdd(speed, Lit(11, 10)), FromInt(2)), d[3]),
                    d[2])
           sample == d = <<FromInt(720), FromInt(1), FromInt(80),
                           FromInt(25), FromInt(40)>>
       IN  /\ op = "get_spent_calories" => (exc = None /\ ret = calories)
           /\ (sample /\ op = "get_mean_speed") => ret = FromInt(1)
           /\ (sample /\ op = "get_spent_calories") => ret = FromInt(336)

C9_Witness ==
    /\ FromFactory
    /\ origin.workout_type = "SWM"
    /\ origin.data = <<FromInt(720), FromInt(1), FromInt(80), FromInt(25),
                       FromInt(40)>>
    /\ op = "get_spent_calories"
    /\ ret = FromInt(336)

\* C10: get_spent_calories on a Training built directly raises
\* NotImplementedError; on a workout returned by read_package neither
\* get_spent_calories nor show_training_info does.
C10_NotImplemented ==
    /\ (training.type = "Training" /\ op = "get_spent_calories")
       => (exc.type = "NotImplementedError" /\ ret = None)
    /\ (FromFactory /\ op \in {"get_spent_calories", "show_training_info"})
       => exc.type # "NotImplementedError"

C10_Witness ==
    /\ training.type = "Training"
    /\ op = "get_spent_calories"
    /\ exc.type = "NotImplementedError"
====
